---- MODULE Spec2Model ----
(***************************************************************************)
(* Financial reconciliation engine (backend/server.py).                    *)
(*                                                                         *)
(* The store holds four collections: transactions, general_ledger,         *)
(* reconciliation_results and anomalies.  Collections are sequences in     *)
(* insertion order (find().to_list() returns documents in that order).     *)
(*                                                                         *)
(* Amounts are Python floats in the source.  Here they are fixed-point     *)
(* integers in thousandths of a currency unit: 100.00 is 100000 and 0.01   *)
(* is 10.  Subtraction and comparison are exact on these values.           *)
(*                                                                         *)
(* Fields that are fresh per document and never read by the engine (the    *)
(* uuid `id`, `created_at`, `counterparty`) are left out of the records.   *)
(* A general-ledger document's `_id` is unique inside one find() result,   *)
(* so it is modelled by the document's position in that result.            *)
(***************************************************************************)
EXTENDS Integers, Sequences, FiniteSets, TLC

(***************************************************************************)
(* Program constants (thousandths).                                        *)
(***************************************************************************)
\* server.py:175  abs(gl_amount - txn['amount']) < 0.01
EXACT_TOLERANCE == 10
\* server.py:188  abs(gl_amount - txn['amount']) < 100
MISMATCH_CEILING == 100000

(***************************************************************************)
(* Bounds of the model.                                                    *)
(***************************************************************************)
\* longest transaction table given to the matcher
MaxTxn == 2
\* longest general-ledger table given to the matcher
MaxGL == 2

\* Python None in an optional string field
NONE == "None"

\* Optional[float]: None is the empty sequence and a value d is <<d>>
NoAmount == << >>

SomeAmount(d) == << d >>

Abs(x) == IF x < 0 THEN -x ELSE x

SeqsUpTo(S, n) == UNION { [1..k -> S] : k \in 0..n }

(***************************************************************************)
(* Inputs of the matcher.  Every transaction is 100.00 on ACC1 at          *)
(* 2024-01-01.  The ledger rows of that account and date carry gl_id G1 or *)
(* G2 and a net amount such that net - amount is one of                    *)
(*   0, 0.005, 0.01, 99.99, 100.00, 150.00, -99.99, -100.00;               *)
(* two more rows equal the amount on another account and on another date.  *)
(***************************************************************************)
TxnRows ==
    [ txn_id : {"T1", "T2"}, account_id : {"ACC1"}, date : {"2024-01-01"},
      amount : {100000} ]

\* <<debit_amount, credit_amount>>
GLAmounts ==
    { <<100000, 0>>, <<100005, 0>>, <<100010, 0>>, <<199990, 0>>,
      <<250000, 50000>>, <<250000, 0>>, <<10, 0>>, <<50000, 50000>> }

GLRow(gl_id, account_id, date, debit_amount, credit_amount) ==
    [ gl_id |-> gl_id, account_id |-> account_id, date |-> date,
      debit_amount |-> debit_amount, credit_amount |-> credit_amount ]

GLRows ==
    { GLRow(g, "ACC1", "2024-01-01", a[1], a[2]) : g \in {"G1", "G2"}, a \in GLAmounts }
    \cup { GLRow("G1", "ACC2", "2024-01-01", 100000, 0),
           GLRow("G1", "ACC1", "2024-01-02", 100000, 0) }

(***************************************************************************)
(* ReconciliationResult (server.py:54-62).                                 *)
(***************************************************************************)
ReconciliationResult(status, transaction_id, gl_id, account_id, date, amount_difference) ==
    [ status |-> status, transaction_id |-> transaction_id, gl_id |-> gl_id,
      account_id |-> account_id, date |-> date,
      amount_difference |-> amount_difference ]

(***************************************************************************)
(* The inner loop of reconcile_transactions (server.py:168-199): scan the  *)
(* ledger from position j for the first unclaimed entry of the same        *)
(* account and date whose net amount is within the ceiling.                *)
(***************************************************************************)
GlCandidateMutNoClaimCheck(txn, gl, j, matched_gl_ids) ==
    /\ gl.account_id = txn.account_id
    /\ gl.date = txn.date

\* server.py:169-171
GlCandidate(txn, gl, j, matched_gl_ids) ==
    /\ gl.account_id = txn.account_id
    /\ gl.date = txn.date
    /\ j \notin matched_gl_ids

\* server.py:174
gl_amount(gl) == gl.debit_amount - gl.credit_amount

\* server.py:175
IsPerfectMatch(gl, txn) == Abs(gl_amount(gl) - txn.amount) < EXACT_TOLERANCE

IsCloseMismatchMutInclusive(gl, txn) == Abs(gl_amount(gl) - txn.amount) <= MISMATCH_CEILING

IsCloseMismatchMutWide(gl, txn) == Abs(gl_amount(gl) - txn.amount) < 2 * MISMATCH_CEILING

\* server.py:188
IsCloseMismatch(gl, txn) == Abs(gl_amount(gl) - txn.amount) < MISMATCH_CEILING

MatchedDifferenceMutActual(gl, txn) == gl_amount(gl) - txn.amount

\* server.py:183  amount_difference=0.0
MatchedDifference(gl, txn) == 0

\* a scan that prefers an exact entry anywhere over an earlier close one
ScanGLMutExactFirst(txn, gl_entries, matched_gl_ids, j) ==
    LET cand == { k \in j..Len(gl_entries) :
                    GlCandidate(txn, gl_entries[k], k, matched_gl_ids) }
        exact == { k \in cand : IsPerfectMatch(gl_entries[k], txn) }
        close == { k \in cand : IsCloseMismatch(gl_entries[k], txn) }
        First(S) == CHOOSE x \in S : \A y \in S : x <= y
    IN  IF exact # {}
        THEN [ matched |-> TRUE, claimed |-> First(exact),
               result |-> ReconciliationResult("matched", txn.txn_id,
                              gl_entries[First(exact)].gl_id, txn.account_id, txn.date,
                              SomeAmount(MatchedDifference(gl_entries[First(exact)], txn))) ]
        ELSE IF close # {}
        THEN [ matched |-> TRUE, claimed |-> First(close),
               result |-> ReconciliationResult("amount_mismatch", txn.txn_id,
                              gl_entries[First(close)].gl_id, txn.account_id, txn.date,
                              SomeAmount(gl_amount(gl_entries[First(close)]) - txn.amount)) ]
        ELSE [ matched |-> FALSE, claimed |-> 0,
               result |-> ReconciliationResult("missing_gl", txn.txn_id, NONE,
                                               txn.account_id, txn.date, NoAmount) ]

RECURSIVE ScanGL(_, _, _, _)
ScanGL(txn, gl_entries, matched_gl_ids, j) ==
    IF j > Len(gl_entries)
    THEN [ matched |-> FALSE, claimed |-> 0,
           result |-> ReconciliationResult("missing_gl", txn.txn_id, NONE,
                                           txn.account_id, txn.date, NoAmount) ]
    ELSE LET gl == gl_entries[j] IN
         IF GlCandidate(txn, gl, j, matched_gl_ids)
         THEN IF IsPerfectMatch(gl, txn)
              THEN [ matched |-> TRUE, claimed |-> j,
                     result |-> ReconciliationResult("matched", txn.txn_id, gl.gl_id,
                                                     txn.account_id, txn.date,
                                                     SomeAmount(MatchedDifference(gl, txn))) ]
              ELSE IF IsCloseMismatch(gl, txn)
              THEN [ matched |-> TRUE, claimed |-> j,
                     result |-> ReconciliationResult("amount_mismatch", txn.txn_id,
                                    gl.gl_id, txn.account_id, txn.date,
                                    SomeAmount(gl_amount(gl) - txn.amount)) ]
              ELSE ScanGL(txn, gl_entries, matched_gl_ids, j + 1)
         ELSE ScanGL(txn, gl_entries, matched_gl_ids, j + 1)

(***************************************************************************)
(* The outer loop (server.py:165-210): one result per transaction, in      *)
(* input order, accumulating the claimed ledger entries.                   *)
(***************************************************************************)
RECURSIVE MatchTransactions(_, _, _, _, _)
MatchTransactions(transactions, gl_entries, i, results, matched_gl_ids) ==
    IF i > Len(transactions)
    THEN [ results |-> results, matched_gl_ids |-> matched_gl_ids ]
    ELSE LET s == ScanGL(transactions[i], gl_entries, matched_gl_ids, 1) IN
         MatchTransactions(transactions, gl_entries, i + 1,
                           Append(results, s.result),
                           IF s.matched THEN matched_gl_ids \cup {s.claimed}
                                        ELSE matched_gl_ids)

(***************************************************************************)
(* The second loop (server.py:213-221): a missing_transaction result for   *)
(* every ledger entry that was never claimed, in ledger order.             *)
(***************************************************************************)
RECURSIVE MissingTransactions(_, _, _)
MissingTransactions(gl_entries, matched_gl_ids, j) ==
    IF j > Len(gl_entries) THEN << >>
    ELSE LET gl == gl_entries[j]
             rest == MissingTransactions(gl_entries, matched_gl_ids, j + 1) IN
         IF j \notin matched_gl_ids
         THEN << ReconciliationResult("missing_transaction", NONE, gl.gl_id,
                                      gl.account_id, gl.date, NoAmount) >> \o rest
         ELSE rest

MatcherMutNoMissingTransactions(transactions, gl_entries) ==
    MatchTransactions(transactions, gl_entries, 1, << >>, {})

\* server.py:162-221: the result list and the claimed set of one run
Matcher(transactions, gl_entries) ==
    LET m == MatchTransactions(transactions, gl_entries, 1, << >>, {}) IN
    [ results |-> m.results \o MissingTransactions(gl_entries, m.matched_gl_ids, 1),
      matched_gl_ids |-> m.matched_gl_ids ]

(***************************************************************************)
(* Anomaly detection (server.py:231-340).                                  *)
(*                                                                         *)
(* AnomalyResult (server.py:64-71) without anomaly_score: the score is a   *)
(* float computed by numpy/scikit-learn that no decision of the engine     *)
(* reads.                                                                  *)
(***************************************************************************)
AnomalyResult(transaction_id, anomaly_type, detection_method) ==
    [ transaction_id |-> transaction_id, anomaly_type |-> anomaly_type,
      detection_method |-> detection_method ]

\* server.py:236
MIN_ROWS_STATISTICAL == 5
\* server.py:283
MIN_ROWS_ML == 10
\* server.py:243  z_scores > 3
Z_THRESHOLD == 3

RECURSIVE SumAmounts(_, _)
SumAmounts(transactions, i) ==
    IF i > Len(transactions) THEN 0
    ELSE transactions[i].amount + SumAmounts(transactions, i + 1)

RECURSIVE SumSquares(_, _)
SumSquares(transactions, i) ==
    IF i > Len(transactions) THEN 0
    ELSE transactions[i].amount * transactions[i].amount
         + SumSquares(transactions, i + 1)

(***************************************************************************)
(* server.py:242-243.  stats.zscore uses the population standard           *)
(* deviation: |a - mean| / std > 3 with mean = S/n and std^2 = Q/n - mean^2 *)
(* is (n*a - S)^2 > 9 * (n*Q - S^2), where S is the sum of the amounts and *)
(* Q the sum of their squares.  With std = 0 the z-score is NaN and the    *)
(* comparison is false, as is the inequality (0 > 0).                      *)
(***************************************************************************)
ZFlagged(n, S, Q, amount) ==
    LET d == n * amount - S
    IN  d * d > Z_THRESHOLD * Z_THRESHOLD * (n * Q - S * S)

\* the k-th smallest amount (k in 1..n)
OrderStat(transactions, k) ==
    LET idx == 1..Len(transactions)
        vals == { transactions[i].amount : i \in idx }
    IN  CHOOSE v \in vals :
            /\ Cardinality({ i \in idx : transactions[i].amount < v }) < k
            /\ k <= Cardinality({ i \in idx : transactions[i].amount <= v })

(***************************************************************************)
(* server.py:256-257.  Series.quantile(q) interpolates linearly at the     *)
(* 0-based position (n-1)*q of the sorted amounts.  Quantile4 is 4 times   *)
(* the quartile (num is 1 for Q1 and 3 for Q3), which keeps it an integer. *)
(***************************************************************************)
Quantile4(transactions, num) ==
    LET n == Len(transactions)
        pos == num * (n - 1)
        lo == pos \div 4
        r == pos % 4
    IN  IF r = 0 THEN 4 * OrderStat(transactions, lo + 1)
        ELSE (4 - r) * OrderStat(transactions, lo + 1)
             + r * OrderStat(transactions, lo + 2)

\* server.py:258-262, both sides multiplied by 8; q1 and q3 are 4*Q1 and 4*Q3
IqrFlagged(q1, q3, amount) ==
    \/ 8 * amount < 5 * q1 - 3 * q3
    \/ 8 * amount > 5 * q3 - 3 * q1

\* [a.transaction_id for a in anomalies]
FlaggedIds(anomalies) == { anomalies[k].transaction_id : k \in 1..Len(anomalies) }

\* server.py:243-253: the rows of z_anomalies in row order; no membership test
RECURSIVE ZLoop(_, _, _, _, _)
ZLoop(transactions, S, Q, i, anomalies) ==
    IF i > Len(transactions) THEN anomalies
    ELSE ZLoop(transactions, S, Q, i + 1,
               IF ZFlagged(Len(transactions), S, Q, transactions[i].amount)
               THEN Append(anomalies,
                           AnomalyResult(transactions[i].txn_id, "statistical", "z_score"))
               ELSE anomalies)

\* server.py:262-266: a row of iqr_anomalies is added unless its id is there
IqrAdds(txn, flagged, anomalies) ==
    /\ flagged
    /\ txn.txn_id \notin FlaggedIds(anomalies)

\* server.py:264-274
RECURSIVE IqrLoop(_, _, _, _, _)
IqrLoop(transactions, q1, q3, i, anomalies) ==
    IF i > Len(transactions) THEN anomalies
    ELSE IqrLoop(transactions, q1, q3, i + 1,
                 IF IqrAdds(transactions[i],
                            IqrFlagged(q1, q3, transactions[i].amount), anomalies)
                 THEN Append(anomalies,
                             AnomalyResult(transactions[i].txn_id, "statistical", "iqr"))
                 ELSE anomalies)

\* the off-by-one variant of the statistical row guard
detect_anomalies_statisticalMutRunsOnFour(transactions) ==
    IF Len(transactions) < MIN_ROWS_STATISTICAL - 1 THEN << >>
    ELSE LET S == SumAmounts(transactions, 1)
             Q == SumSquares(transactions, 1)
             q1 == Quantile4(transactions, 1)
             q3 == Quantile4(transactions, 3)
         IN  IqrLoop(transactions, q1, q3, 1, ZLoop(transactions, S, Q, 1, << >>))

\* server.py:231-276
detect_anomalies_statistical(transactions) ==
    IF Len(transactions) < MIN_ROWS_STATISTICAL THEN << >>
    ELSE LET S == SumAmounts(transactions, 1)
             Q == SumSquares(transactions, 1)
             q1 == Quantile4(transactions, 1)
             q3 == Quantile4(transactions, 3)
         IN  IqrLoop(transactions, q1, q3, 1, ZLoop(transactions, S, Q, 1, << >>))

(***************************************************************************)
(* The ML sub-pipeline.  The fitted models are scikit-learn's; their       *)
(* predictions are inputs here: iso_outliers and svm_outliers are the sets *)
(* of row positions predicted -1 by fit_predict.                           *)
(***************************************************************************)
\* server.py:309-319: no membership test in this loop
RECURSIVE IsoLoop(_, _, _, _)
IsoLoop(transactions, iso_outliers, idx, anomalies) ==
    IF idx > Len(transactions) THEN anomalies
    ELSE IsoLoop(transactions, iso_outliers, idx + 1,
                 IF idx \in iso_outliers
                 THEN Append(anomalies,
                             AnomalyResult(transactions[idx].txn_id,
                                           "ml_isolation_forest", "isolation_forest"))
                 ELSE anomalies)

\* server.py:326-338
RECURSIVE SvmLoop(_, _, _, _)
SvmLoop(transactions, svm_outliers, idx, anomalies) ==
    IF idx > Len(transactions) THEN anomalies
    ELSE SvmLoop(transactions, svm_outliers, idx + 1,
                 IF /\ idx \in svm_outliers
                    /\ transactions[idx].txn_id \notin FlaggedIds(anomalies)
                 THEN Append(anomalies,
                             AnomalyResult(transactions[idx].txn_id,
                                           "ml_one_class_svm", "one_class_svm"))
                 ELSE anomalies)

\* server.py:278-340
detect_anomalies_ml(transactions, iso_outliers, svm_outliers) ==
    IF Len(transactions) < MIN_ROWS_ML THEN << >>
    ELSE SvmLoop(transactions, svm_outliers, 1,
                 IsoLoop(transactions, iso_outliers, 1, << >>))

(***************************************************************************)
(* Inputs of the anomaly pipeline.  A table has n rows; the first two rows *)
(* carry an amount from {AnLow, AnBase, AnHigh} and the second row may     *)
(* repeat the first row's txn_id; every later row is AnBase with a txn_id  *)
(* of its own.  Amounts are small so that sums of squares stay in range.   *)
(*                                                                         *)
(* The statistics are computed exactly; where |z| is exactly 3 or an       *)
(* amount lies exactly on an IQR bound a float evaluation could round      *)
(* either way.                                                             *)
(***************************************************************************)
\* longest transaction table given to the anomaly pipeline
MaxRows == 19
\* predicted outliers are drawn from the first MLHeadRows rows
MLHeadRows == 3

\* the amounts of the anomaly tables (thousandths): AnBase - 100, AnBase, AnBase + 100
AnBase == 50 + 50
AnLow == AnBase - 100
AnHigh == AnBase + 100

TxnIdOf(i) == "T" \o ToString(i)

AnomalyRow(txn_id, amount) ==
    [ txn_id |-> txn_id, account_id |-> "ACC1", date |-> "2024-01-01",
      amount |-> amount ]

AnomalyTable(n, a1, a2, id2) ==
    [ i \in 1..n |->
        IF i = 1 THEN AnomalyRow(TxnIdOf(1), a1)
        ELSE IF i = 2 THEN AnomalyRow(TxnIdOf(id2), a2)
        ELSE AnomalyRow(TxnIdOf(i), AnBase) ]

AnomalyTables ==
    { AnomalyTable(n, a1, a2, id2) :
        n \in 0..MaxRows, a1 \in {AnLow, AnBase, AnHigh},
        a2 \in {AnLow, AnBase, AnHigh}, id2 \in {1, 2} }

(***************************************************************************)
(* The predictions scikit-learn may return (server.py:305-306, 322-323).   *)
(* IsolationForest(contamination=0.1) labels as outliers the rows whose    *)
(* score is strictly below the 10th percentile of the scores, which is at  *)
(* most ceil((n-1)/10) rows.  OneClassSVM(nu=0.1) has no such hard cap.    *)
(***************************************************************************)
IsoOutlierSets(n) ==
    IF n < MIN_ROWS_ML THEN { {} }
    ELSE { s \in SUBSET (1..MLHeadRows) : Cardinality(s) <= (n + 8) \div 10 }

SvmOutlierSets(n) ==
    IF n < MIN_ROWS_ML THEN { {} } ELSE SUBSET (1..MLHeadRows)

(***************************************************************************)
(* The store (motor collections, server.py:27-29).                         *)
(***************************************************************************)
\* db.<collection>.delete_many({})
DeleteManyMutNoop(collection) == collection

DeleteMany(collection) == << >>

\* db.<collection>.insert_one(doc)
InsertOne(collection, doc) == Append(collection, doc)

\* db.<collection>.insert_many(docs)
InsertMany(collection, docs) == collection \o docs

\* the loop of insert_one calls, run to its end (server.py:224-226)
RECURSIVE InsertEach(_, _, _)
InsertEach(collection, docs, k) ==
    IF k > Len(docs) THEN collection
    ELSE InsertEach(InsertOne(collection, docs[k]), docs, k + 1)

(***************************************************************************)
(* Tables as pandas holds them (pd.read_csv, server.py:351, 400).  A data  *)
(* frame has named columns and rows of cells; a cell is NaN (missing), a   *)
(* value, or text that a numeric column could not parse.                   *)
(***************************************************************************)
NaN == << >>

Cell(v) == << v >>

TextCell(s) == << s, "str" >>

IsNull(cell) == Len(cell) = 0

DataFrame(columns, rows) == [ columns |-> columns, rows |-> rows ]

\* the date strings pd.to_datetime parses
ValidDates == { "2024-01-01", "2024-01-02" }

\* server.py:135  pd.to_datetime leaves NaN as NaT and raises on other text
ParsesAsDate(cell) == IsNull(cell) \/ cell[1] \in ValidDates

(***************************************************************************)
(* calculate_data_quality (server.py:111-151).  Scores are percentages     *)
(* kept in hundredths: 7500 is 75.00.                                      *)
(***************************************************************************)
\* server.py:130  consistency_score -= 10
NEGATIVE_AMOUNT_PENALTY == 10
\* server.py:138  consistency_score -= 15
DATE_FORMAT_PENALTY == 15

\* round(x, 2) of x = num / den percent, as hundredths; a tie goes to even
Round2(num, den) ==
    LET q == num \div den
        r == num % den
    IN  IF 2 * r < den THEN q
        ELSE IF 2 * r > den THEN q + 1
        ELSE IF q % 2 = 0 THEN q ELSE q + 1

NonNullInRow(df, i) ==
    Cardinality({ c \in df.columns : ~IsNull(df.rows[i][c]) })

NonNullCountMutCountsEveryCell(df, i) ==
    IF i > Len(df.rows) THEN 0
    ELSE Cardinality(df.columns) * (Len(df.rows) - i + 1)

\* server.py:116  df.count().sum(), from row i on
RECURSIVE NonNullCount(_, _)
NonNullCount(df, i) ==
    IF i > Len(df.rows) THEN 0
    ELSE NonNullInRow(df, i) + NonNullCount(df, i + 1)

\* server.py:116  df.shape[0] * df.shape[1]
CellCount(df) == Len(df.rows) * Cardinality(df.columns)

\* server.py:123  df.duplicated().sum(): rows equal to an earlier row
duplicate_count(df) ==
    Cardinality({ i \in 1..Len(df.rows) :
                    \E j \in 1..(i - 1) : df.rows[j] = df.rows[i] })

negative_amountsMutNever(df) == 0

\* server.py:126-127  (df['amount'] < 0).sum(); NaN < 0 is False
negative_amounts(df) ==
    IF "amount" \in df.columns
    THEN Cardinality({ i \in 1..Len(df.rows) :
                         /\ ~IsNull(df.rows[i]["amount"])
                         /\ df.rows[i]["amount"][1] < 0 })
    ELSE 0

\* server.py:133-136  pd.to_datetime(df['date']) raises
DateParseFails(df) ==
    /\ "date" \in df.columns
    /\ \E i \in 1..Len(df.rows) : ~ParsesAsDate(df.rows[i]["date"])

\* server.py:119-138
consistency_issues(df) ==
    (IF negative_amounts(df) > 0
     THEN << ToString(negative_amounts(df)) \o " negative amounts found" >>
     ELSE << >>)
    \o (IF DateParseFails(df) THEN << "Inconsistent date formats" >> ELSE << >>)

\* server.py:120-138, in whole percent
consistency_score(df) ==
    100 - (IF negative_amounts(df) > 0 THEN NEGATIVE_AMOUNT_PENALTY ELSE 0)
        - (IF DateParseFails(df) THEN DATE_FORMAT_PENALTY ELSE 0)

\* server.py:111-151
calculate_data_quality(df, dataset_name) ==
    [ dataset_name |-> dataset_name,
      total_records |-> Len(df.rows),
      completeness_score |-> Round2(10000 * NonNullCount(df, 1), CellCount(df)),
      consistency_score |-> 100 * consistency_score(df),
      duplicate_count |-> duplicate_count(df),
      quality_score |->
          Round2(10000 * NonNullCount(df, 1)
                   + 100 * consistency_score(df) * CellCount(df),
                 2 * CellCount(df)),
      issues |-> consistency_issues(df) ]

(***************************************************************************)
(* State.                                                                  *)
(*   transactions_db, general_ledger_db, reconciliation_results_db,        *)
(*   anomalies_db : the collections db.transactions, db.general_ledger,    *)
(*                  db.reconciliation_results, db.anomalies                *)
(*   data_quality_db : the collection db.data_quality, at most one report  *)
(*                  per dataset_name                                       *)
(*   req          : per request slot, the running handler's position and   *)
(*                  local variables                                        *)
(*   completed    : history: the sequence emitted by the most recent       *)
(*                  completed reconciliation run and anomaly run           *)
(*   started      : the number of requests accepted so far                 *)
(***************************************************************************)
VARIABLES transactions_db, general_ledger_db, reconciliation_results_db,
          anomalies_db, data_quality_db, req, completed, started

vars == << transactions_db, general_ledger_db, reconciliation_results_db,
           anomalies_db, data_quality_db, req, completed, started >>

\* the service is followed for this many requests
MaxRequests == 3

\* number of request slots (coroutines in flight at once)
NumProcs == 2

Procs == 1..NumProcs

(***************************************************************************)
(* A slot at rest.  iso_predictions and svm_predictions are the row         *)
(* positions the fitted models label -1.  `before` is history: the content *)
(* of the handler's collection when the request arrived, before_quality    *)
(* that of db.data_quality.  `whole` is history of a read of the results:  *)
(* whether what it returned was a whole result set.  `stable` is history   *)
(* of a run's reads of its input tables: whether no upload stood between   *)
(* its delete_many and its insert_many of the table at the time.           *)
(***************************************************************************)
IdleReq ==
    [ op |-> "idle", pc |-> "idle",
      transactions |-> << >>, gl_entries |-> << >>,
      results |-> << >>, matched_gl_ids |-> {}, next |-> 0,
      statistical_anomalies |-> << >>, ml_anomalies |-> << >>,
      ml_transactions |-> << >>,
      iso_predictions |-> {}, svm_predictions |-> {},
      file |-> << >>, response |-> << >>,
      before |-> << >>, before_quality |-> << >>, whole |-> TRUE, stable |-> TRUE ]

NoRuns == [ reconcile |-> << >>, detect |-> << >> ]

(***************************************************************************)
(* reconcile_transactions run from its first line to its last with no      *)
(* other coroutine scheduled in between and no store error                 *)
(* (server.py:154-228).                                                    *)
(***************************************************************************)
reconcile_transactions ==
    /\ req[1].pc = "idle"
    /\ LET transactions == transactions_db
           gl_entries == general_ledger_db
           m == Matcher(transactions, gl_entries)
       IN  /\ reconciliation_results_db' =
                 InsertEach(DeleteMany(reconciliation_results_db), m.results, 1)
           /\ req' = [req EXCEPT ![1] =
                        [IdleReq EXCEPT !.op = "reconcile", !.pc = "done",
                                        !.transactions = transactions,
                                        !.gl_entries = gl_entries,
                                        !.results = m.results,
                                        !.matched_gl_ids = m.matched_gl_ids,
                                        !.next = Len(m.results) + 1,
                                        !.before = reconciliation_results_db]]
           /\ completed' = [completed EXCEPT !.reconcile = m.results]
    /\ UNCHANGED << transactions_db, general_ledger_db, anomalies_db, started,
                    data_quality_db >>

InitMatch ==
    /\ transactions_db \in SeqsUpTo(TxnRows, MaxTxn)
    /\ general_ledger_db \in SeqsUpTo(GLRows, MaxGL)
    /\ reconciliation_results_db = << >>
    /\ anomalies_db = << >>
    /\ data_quality_db = << >>
    /\ req = [p \in Procs |-> IdleReq]
    /\ completed = NoRuns
    /\ started = 0

NextMatch == reconcile_transactions

SpecMatch == InitMatch /\ [][NextMatch]_vars

(***************************************************************************)
(* The matcher on tables whose transactions differ in amount, so that a    *)
(* ledger entry out of reach of one transaction is within reach of         *)
(* another.  Transactions are 100.00 (T1) and 250.00 (T2) on ACC1 at       *)
(* 2024-01-01; ledger rows of that account and date have net 250.00 (G1),  *)
(* 100.01 (G2) and 100.00 (G3).                                            *)
(***************************************************************************)
\* longest ledger of these tables
MaxGreedyGL == 3

GreedyTxnRows ==
    { [ txn_id |-> "T1", account_id |-> "ACC1", date |-> "2024-01-01", amount |-> 100000 ],
      [ txn_id |-> "T2", account_id |-> "ACC1", date |-> "2024-01-01", amount |-> 250000 ] }

GreedyGLRows ==
    { GLRow("G1", "ACC1", "2024-01-01", 250000, 0),
      GLRow("G2", "ACC1", "2024-01-01", 100010, 0),
      GLRow("G3", "ACC1", "2024-01-01", 100000, 0) }

InitGreedy ==
    /\ transactions_db \in SeqsUpTo(GreedyTxnRows, MaxTxn)
    /\ general_ledger_db \in SeqsUpTo(GreedyGLRows, MaxGreedyGL)
    /\ reconciliation_results_db = << >>
    /\ anomalies_db = << >>
    /\ data_quality_db = << >>
    /\ req = [p \in Procs |-> IdleReq]
    /\ completed = NoRuns
    /\ started = 0

SpecGreedy == InitGreedy /\ [][NextMatch]_vars

(***************************************************************************)
(* run_anomaly_detection run from its first line to its last with no other *)
(* coroutine scheduled in between and no store error (server.py:453-477).  *)
(***************************************************************************)
run_anomaly_detection ==
    /\ req[1].pc = "idle"
    /\ LET statistical_anomalies == detect_anomalies_statistical(transactions_db) IN
       \E iso_outliers \in IsoOutlierSets(Len(transactions_db)),
          svm_outliers \in SvmOutlierSets(Len(transactions_db)) :
         LET ml_anomalies == detect_anomalies_ml(transactions_db, iso_outliers,
                                                 svm_outliers)
             all_anomalies == statistical_anomalies \o ml_anomalies
         IN  /\ anomalies_db' =
                   IF all_anomalies # << >>
                   THEN InsertMany(DeleteMany(anomalies_db), all_anomalies)
                   ELSE DeleteMany(anomalies_db)
             /\ req' = [req EXCEPT ![1] =
                          [IdleReq EXCEPT !.op = "detect", !.pc = "done",
                                          !.transactions = transactions_db,
                                          !.ml_transactions = transactions_db,
                                          !.iso_predictions = iso_outliers,
                                          !.svm_predictions = svm_outliers,
                                          !.statistical_anomalies = statistical_anomalies,
                                          !.ml_anomalies = ml_anomalies,
                                          !.before = anomalies_db]]
             /\ completed' = [completed EXCEPT !.detect = all_anomalies]
    /\ UNCHANGED << transactions_db, general_ledger_db, reconciliation_results_db,
                    started, data_quality_db >>

\* what db.anomalies holds when the run arrives: nothing, or an earlier run's
\* finding about a transaction that has since been replaced by an upload
StoredAnomalies ==
    { << >>, << AnomalyResult(TxnIdOf(0), "statistical", "z_score") >> }

InitAnomaly ==
    /\ transactions_db \in AnomalyTables
    /\ general_ledger_db = << >>
    /\ reconciliation_results_db = << >>
    /\ anomalies_db \in StoredAnomalies
    /\ data_quality_db = << >>
    /\ req = [p \in Procs |-> IdleReq]
    /\ completed = NoRuns
    /\ started = 0

NextAnomaly == run_anomaly_detection

SpecAnomaly == InitAnomaly /\ [][NextAnomaly]_vars

(***************************************************************************)
(* calculate_data_quality applied to one table (server.py:111-151).  The   *)
(* tables are those an upload hands over after its insert_many: at least   *)
(* one row, the file's columns, cells missing or unparseable here and      *)
(* there, amounts numeric.                                                 *)
(***************************************************************************)
\* longest table given to the scorer
MaxQualityRows == 4

\* server.py:354
TXN_COLUMNS == { "txn_id", "date", "amount", "account_id", "counterparty" }
\* server.py:403
GL_COLUMNS == { "gl_id", "date", "debit_amount", "credit_amount", "account_id" }

TxnFrameRow(txn_id, date, amount, account_id, counterparty) ==
    [ txn_id |-> txn_id, date |-> date, amount |-> amount,
      account_id |-> account_id, counterparty |-> counterparty ]

GLFrameRow(gl_id, date, debit_amount, credit_amount, account_id) ==
    [ gl_id |-> gl_id, date |-> date, debit_amount |-> debit_amount,
      credit_amount |-> credit_amount, account_id |-> account_id ]

\* a complete row, a complete row with a negative amount, an empty row, a
\* row with an unparseable date, a row lacking its counterparty, a row with
\* an unparseable date and a negative amount
TxnQualityRows ==
    { TxnFrameRow(Cell("T1"), Cell("2024-01-01"), Cell(100), Cell("ACC1"), Cell("CP1")),
      TxnFrameRow(Cell("T1"), Cell("2024-01-01"), Cell(-100), Cell("ACC1"), Cell("CP1")),
      TxnFrameRow(NaN, NaN, NaN, NaN, NaN),
      TxnFrameRow(Cell("T1"), Cell("not-a-date"), Cell(100), Cell("ACC1"), Cell("CP1")),
      TxnFrameRow(Cell("T1"), Cell("2024-01-01"), Cell(100), Cell("ACC1"), NaN),
      TxnFrameRow(Cell("T1"), Cell("not-a-date"), Cell(-100), Cell("ACC1"), Cell("CP1")) }

GLQualityRows ==
    { GLFrameRow(Cell("G1"), Cell("2024-01-01"), Cell(100), Cell(0), Cell("ACC1")),
      GLFrameRow(NaN, NaN, NaN, NaN, NaN),
      GLFrameRow(Cell("G1"), Cell("not-a-date"), Cell(100), Cell(0), Cell("ACC1")) }

QualityInputs ==
    { [ dataset_name |-> "transactions", df |-> DataFrame(TXN_COLUMNS, rows) ] :
        rows \in SeqsUpTo(TxnQualityRows, MaxQualityRows) \ { << >> } }
    \cup
    { [ dataset_name |-> "general_ledger", df |-> DataFrame(GL_COLUMNS, rows) ] :
        rows \in SeqsUpTo(GLQualityRows, MaxQualityRows) \ { << >> } }

score_quality ==
    /\ req[1].op = "score_quality" /\ req[1].pc = "quality"
    /\ req' = [req EXCEPT ![1].response =
                   calculate_data_quality(req[1].file.df, req[1].file.dataset_name),
                          ![1].pc = "done"]
    /\ UNCHANGED << transactions_db, general_ledger_db, reconciliation_results_db,
                    anomalies_db, completed, started, data_quality_db >>

InitQuality ==
    /\ transactions_db = << >>
    /\ general_ledger_db = << >>
    /\ reconciliation_results_db = << >>
    /\ anomalies_db = << >>
    /\ data_quality_db = << >>
    /\ \E input \in QualityInputs :
         req = [p \in Procs |->
                  IF p = 1
                  THEN [IdleReq EXCEPT !.op = "score_quality", !.pc = "quality",
                                       !.file = input]
                  ELSE IdleReq]
    /\ completed = NoRuns
    /\ started = 0

NextQuality == score_quality

SpecQuality == InitQuality /\ [][NextQuality]_vars

(***************************************************************************)
(* The service: each handler is a coroutine; the event loop may switch to  *)
(* another request at every await, so a step is the code from one awaited  *)
(* store operation up to the next.  A step takes effect when the store     *)
(* operation does.                                                         *)
(***************************************************************************)
\* a reconciliation run is in progress in slot p
ReconcileRunning(p) ==
    req[p].op = "reconcile" /\ req[p].pc \in {"find_gl", "delete", "insert"}

\* an anomaly-detection run is in progress in slot p
DetectRunning(p) ==
    req[p].op = "detect" /\ req[p].pc \in {"statistical", "ml", "insert"}

\* what a read of db.reconciliation_results finds is whole: no run is in
\* progress, or it is the previous run's result set, or what a running run
\* found on arrival, or a running run's new result set
ResultsWhole ==
    \/ \A p \in Procs : ~ReconcileRunning(p)
    \/ reconciliation_results_db = completed.reconcile
    \/ \E p \in Procs : /\ ReconcileRunning(p)
                        /\ reconciliation_results_db = req[p].before
    \/ \E p \in Procs : /\ ReconcileRunning(p)
                        /\ req[p].pc = "insert"
                        /\ reconciliation_results_db = req[p].results

\* no upload of the table stands between its delete_many and its insert_many
TransactionsStable ==
    \A q \in Procs : ~(req[q].op = "upload_transactions" /\ req[q].pc = "insert")

GeneralLedgerStable ==
    \A q \in Procs : ~(req[q].op = "upload_general_ledger" /\ req[q].pc = "insert")

\* server.py:156  transactions = await db.transactions.find().to_list()
ReconcileFindTransactions(p) ==
    /\ req[p].pc = "idle"
    /\ req' = [req EXCEPT ![p] =
                 [IdleReq EXCEPT !.op = "reconcile", !.pc = "find_gl",
                                 !.transactions = transactions_db,
                                 !.stable = TransactionsStable,
                                 !.before = reconciliation_results_db]]
    /\ UNCHANGED << transactions_db, general_ledger_db, reconciliation_results_db,
                    anomalies_db, completed, data_quality_db >>

\* server.py:157  gl_entries = await db.general_ledger.find().to_list()
ReconcileFindGL(p) ==
    /\ req[p].op = "reconcile" /\ req[p].pc = "find_gl"
    /\ req' = [req EXCEPT ![p].gl_entries = general_ledger_db,
                          ![p].stable = @ /\ GeneralLedgerStable,
                          ![p].pc = "delete"]
    /\ UNCHANGED << transactions_db, general_ledger_db, reconciliation_results_db,
                    anomalies_db, completed, data_quality_db >>

\* server.py:160-221  delete_many, then the result list is built in memory;
\* with an empty list the insert loop does nothing and the run is complete
ReconcileDelete(p) ==
    /\ req[p].op = "reconcile" /\ req[p].pc = "delete"
    /\ LET m == Matcher(req[p].transactions, req[p].gl_entries) IN
       /\ reconciliation_results_db' = DeleteMany(reconciliation_results_db)
       /\ req' = [req EXCEPT ![p].results = m.results,
                             ![p].matched_gl_ids = m.matched_gl_ids,
                             ![p].next = 1,
                             ![p].pc = IF m.results = << >> THEN "done" ELSE "insert"]
       /\ completed' = IF m.results = << >>
                       THEN [completed EXCEPT !.reconcile = m.results]
                       ELSE completed
    /\ UNCHANGED << transactions_db, general_ledger_db, anomalies_db,
                    data_quality_db >>

\* server.py:224-228  one insert_one per result; after the last, return
ReconcileInsertOne(p) ==
    /\ req[p].op = "reconcile" /\ req[p].pc = "insert"
    /\ reconciliation_results_db' =
           InsertOne(reconciliation_results_db, req[p].results[req[p].next])
    /\ req' = [req EXCEPT ![p].next = @ + 1,
                          ![p].pc = IF req[p].next = Len(req[p].results)
                                    THEN "done" ELSE "insert"]
    /\ completed' = IF req[p].next = Len(req[p].results)
                    THEN [completed EXCEPT !.reconcile = req[p].results]
                    ELSE completed
    /\ UNCHANGED << transactions_db, general_ledger_db, anomalies_db,
                    data_quality_db >>

\* server.py:458  await db.anomalies.delete_many({})
DetectDelete(p) ==
    /\ req[p].pc = "idle"
    /\ anomalies_db' = DeleteMany(anomalies_db)
    /\ req' = [req EXCEPT ![p] =
                 [IdleReq EXCEPT !.op = "detect", !.pc = "statistical",
                                 !.before = anomalies_db]]
    /\ UNCHANGED << transactions_db, general_ledger_db, reconciliation_results_db,
                    completed, data_quality_db >>

\* server.py:461, 233-276  the statistical sub-pipeline reads the table
DetectStatistical(p) ==
    /\ req[p].op = "detect" /\ req[p].pc = "statistical"
    /\ req' = [req EXCEPT ![p].transactions = transactions_db,
                          ![p].stable = TransactionsStable,
                          ![p].statistical_anomalies =
                              detect_anomalies_statistical(transactions_db),
                          ![p].pc = "ml"]
    /\ UNCHANGED << transactions_db, general_ledger_db, reconciliation_results_db,
                    anomalies_db, completed, data_quality_db >>

\* server.py:464-468, 280-340  the ML sub-pipeline reads the table again; with
\* nothing found there is no insert and the run is complete
DetectML(p) ==
    /\ req[p].op = "detect" /\ req[p].pc = "ml"
    /\ \E iso_outliers \in IsoOutlierSets(Len(transactions_db)),
          svm_outliers \in SvmOutlierSets(Len(transactions_db)) :
         LET ml_anomalies == detect_anomalies_ml(transactions_db, iso_outliers,
                                                 svm_outliers)
             all_anomalies == req[p].statistical_anomalies \o ml_anomalies
         IN  /\ req' = [req EXCEPT ![p].ml_transactions = transactions_db,
                                   ![p].stable = @ /\ TransactionsStable,
                                   ![p].iso_predictions = iso_outliers,
                                   ![p].svm_predictions = svm_outliers,
                                   ![p].ml_anomalies = ml_anomalies,
                                   ![p].pc = IF all_anomalies = << >>
                                             THEN "done" ELSE "insert"]
             /\ completed' = IF all_anomalies = << >>
                             THEN [completed EXCEPT !.detect = << >>]
                             ELSE completed
    /\ UNCHANGED << transactions_db, general_ledger_db, reconciliation_results_db,
                    anomalies_db, data_quality_db >>

\* server.py:467-470  await db.anomalies.insert_many(anomaly_dicts)
DetectInsertMany(p) ==
    /\ req[p].op = "detect" /\ req[p].pc = "insert"
    /\ LET all_anomalies == req[p].statistical_anomalies \o req[p].ml_anomalies IN
       /\ anomalies_db' = InsertMany(anomalies_db, all_anomalies)
       /\ completed' = [completed EXCEPT !.detect = all_anomalies]
    /\ req' = [req EXCEPT ![p].pc = "done"]
    /\ UNCHANGED << transactions_db, general_ledger_db, reconciliation_results_db,
                    data_quality_db >>

(***************************************************************************)
(* Uploads (server.py:343-439).  A file has a name, and as CSV a header    *)
(* (columns) and data rows.  The handler checks the name, parses the file  *)
(* and checks the header before it touches the store; it converts the rows *)
(* after having emptied the collection.                                    *)
(***************************************************************************)
UploadFile(filename, columns, rows) ==
    [ filename |-> filename, columns |-> columns, rows |-> rows ]

\* server.py:346, 395  file.filename.endswith('.csv'); a name is <<stem, suffix>>
EndsWithCsv(filename) == filename[Len(filename)] = ".csv"

\* server.py:351, 400
read_csv(file) == DataFrame(file.columns, file.rows)

\* server.py:367, 416-417  float(...) raises on text that is not a number
FloatRaises(cell) == Len(cell) = 2

\* server.py:364-371  Transaction(...).dict()
Transaction(row) ==
    [ txn_id |-> row["txn_id"][1], account_id |-> row["account_id"][1],
      date |-> row["date"][1], amount |-> row["amount"][1] ]

\* server.py:413-420  GeneralLedgerEntry(...).dict()
GeneralLedgerEntry(row) ==
    GLRow(row["gl_id"][1], row["account_id"][1], row["date"][1],
          row["debit_amount"][1], row["credit_amount"][1])

\* db.data_quality.replace_one({"dataset_name": ...}, doc, upsert=True)
ReplaceOne(collection, dataset_name, doc) ==
    LET hits == { k \in 1..Len(collection) : collection[k].dataset_name = dataset_name }
    IN  IF hits = {} THEN Append(collection, doc)
        ELSE [collection EXCEPT ![CHOOSE k \in hits : \A h \in hits : k <= h] = doc]

\* server.py:346-356  the name or the header is refused: HTTP 400
UploadTransactionsReject(p, file) ==
    /\ req[p].pc = "idle"
    /\ \/ ~EndsWithCsv(file.filename)
       \/ ~(TXN_COLUMNS \subseteq read_csv(file).columns)
    /\ req' = [req EXCEPT ![p] =
                 [IdleReq EXCEPT !.op = "upload_transactions", !.pc = "failed",
                                 !.file = file,
                                 !.before = transactions_db,
                                 !.before_quality = data_quality_db]]
    /\ UNCHANGED << transactions_db, general_ledger_db, reconciliation_results_db,
                    anomalies_db, completed, data_quality_db >>

\* server.py:346-359  name and header pass, then delete_many
UploadTransactionsDelete(p, file) ==
    /\ req[p].pc = "idle"
    /\ EndsWithCsv(file.filename)
    /\ TXN_COLUMNS \subseteq read_csv(file).columns
    /\ transactions_db' = DeleteMany(transactions_db)
    /\ req' = [req EXCEPT ![p] =
                 [IdleReq EXCEPT !.op = "upload_transactions", !.pc = "insert",
                                 !.file = file,
                                 !.before = transactions_db,
                                 !.before_quality = data_quality_db]]
    /\ UNCHANGED << general_ledger_db, reconciliation_results_db, anomalies_db,
                    completed, data_quality_db >>

\* server.py:362-373  the rows convert: await db.transactions.insert_many
UploadTransactionsInsert(p) ==
    /\ req[p].op = "upload_transactions" /\ req[p].pc = "insert"
    /\ LET df == read_csv(req[p].file) IN
       /\ \A i \in 1..Len(df.rows) : ~FloatRaises(df.rows[i]["amount"])
       /\ Len(df.rows) > 0
       /\ transactions_db' =
              InsertMany(transactions_db,
                         [ i \in 1..Len(df.rows) |-> Transaction(df.rows[i]) ])
    /\ req' = [req EXCEPT ![p].pc = "quality"]
    /\ UNCHANGED << general_ledger_db, reconciliation_results_db, anomalies_db,
                    completed, data_quality_db >>

\* server.py:362-373, 389-390  float() raises on a row, or insert_many
\* refuses an empty list: HTTP 400 with the collection already emptied
UploadTransactionsInsertFails(p) ==
    /\ req[p].op = "upload_transactions" /\ req[p].pc = "insert"
    /\ LET df == read_csv(req[p].file) IN
       \/ \E i \in 1..Len(df.rows) : FloatRaises(df.rows[i]["amount"])
       \/ Len(df.rows) = 0
    /\ req' = [req EXCEPT ![p].pc = "failed"]
    /\ UNCHANGED << transactions_db, general_ledger_db, reconciliation_results_db,
                    anomalies_db, completed, data_quality_db >>

\* server.py:376-387  the report replaces the dataset's earlier report
UploadTransactionsQuality(p) ==
    /\ req[p].op = "upload_transactions" /\ req[p].pc = "quality"
    /\ data_quality_db' =
           ReplaceOne(data_quality_db, "transactions",
                      calculate_data_quality(read_csv(req[p].file), "transactions"))
    /\ req' = [req EXCEPT ![p].pc = "done"]
    /\ UNCHANGED << transactions_db, general_ledger_db, reconciliation_results_db,
                    anomalies_db, completed >>

\* server.py:395-405
UploadGeneralLedgerReject(p, file) ==
    /\ req[p].pc = "idle"
    /\ \/ ~EndsWithCsv(file.filename)
       \/ ~(GL_COLUMNS \subseteq read_csv(file).columns)
    /\ req' = [req EXCEPT ![p] =
                 [IdleReq EXCEPT !.op = "upload_general_ledger", !.pc = "failed",
                                 !.file = file,
                                 !.before = general_ledger_db,
                                 !.before_quality = data_quality_db]]
    /\ UNCHANGED << transactions_db, general_ledger_db, reconciliation_results_db,
                    anomalies_db, completed, data_quality_db >>

\* server.py:395-408
UploadGeneralLedgerDelete(p, file) ==
    /\ req[p].pc = "idle"
    /\ EndsWithCsv(file.filename)
    /\ GL_COLUMNS \subseteq read_csv(file).columns
    /\ general_ledger_db' = DeleteMany(general_ledger_db)
    /\ req' = [req EXCEPT ![p] =
                 [IdleReq EXCEPT !.op = "upload_general_ledger", !.pc = "insert",
                                 !.file = file,
                                 !.before = general_ledger_db,
                                 !.before_quality = data_quality_db]]
    /\ UNCHANGED << transactions_db, reconciliation_results_db, anomalies_db,
                    completed, data_quality_db >>

\* server.py:411-422
UploadGeneralLedgerInsert(p) ==
    /\ req[p].op = "upload_general_ledger" /\ req[p].pc = "insert"
    /\ LET df == read_csv(req[p].file) IN
       /\ \A i \in 1..Len(df.rows) :
             /\ ~FloatRaises(df.rows[i]["debit_amount"])
             /\ ~FloatRaises(df.rows[i]["credit_amount"])
       /\ Len(df.rows) > 0
       /\ general_ledger_db' =
              InsertMany(general_ledger_db,
                         [ i \in 1..Len(df.rows) |-> GeneralLedgerEntry(df.rows[i]) ])
    /\ req' = [req EXCEPT ![p].pc = "quality"]
    /\ UNCHANGED << transactions_db, reconciliation_results_db, anomalies_db,
                    completed, data_quality_db >>

\* server.py:411-422, 438-439
UploadGeneralLedgerInsertFails(p) ==
    /\ req[p].op = "upload_general_ledger" /\ req[p].pc = "insert"
    /\ LET df == read_csv(req[p].file) IN
       \/ \E i \in 1..Len(df.rows) :
             \/ FloatRaises(df.rows[i]["debit_amount"])
             \/ FloatRaises(df.rows[i]["credit_amount"])
       \/ Len(df.rows) = 0
    /\ req' = [req EXCEPT ![p].pc = "failed"]
    /\ UNCHANGED << transactions_db, general_ledger_db, reconciliation_results_db,
                    anomalies_db, completed, data_quality_db >>

\* server.py:425-436
UploadGeneralLedgerQuality(p) ==
    /\ req[p].op = "upload_general_ledger" /\ req[p].pc = "quality"
    /\ data_quality_db' =
           ReplaceOne(data_quality_db, "general_ledger",
                      calculate_data_quality(read_csv(req[p].file), "general_ledger"))
    /\ req' = [req EXCEPT ![p].pc = "done"]
    /\ UNCHANGED << transactions_db, general_ledger_db, reconciliation_results_db,
                    anomalies_db, completed >>

\* server.py:518-529  GET /reconciliation/results without filters
GetReconciliationResults(p) ==
    /\ req[p].pc = "idle"
    /\ req' = [req EXCEPT ![p] =
                 [IdleReq EXCEPT !.op = "get_reconciliation_results", !.pc = "done",
                                 !.response = reconciliation_results_db,
                                 !.whole = ResultsWhole]]
    /\ UNCHANGED << transactions_db, general_ledger_db, reconciliation_results_db,
                    anomalies_db, completed, data_quality_db >>

\* the response is sent; the slot is free again
Return(p) ==
    /\ req[p].pc \in {"done", "failed"}
    /\ req' = [req EXCEPT ![p] = IdleReq]
    /\ UNCHANGED << transactions_db, general_ledger_db, reconciliation_results_db,
                    anomalies_db, completed, data_quality_db >>

\* server.py:450, 478  the awaited store operation raises instead of taking
\* effect; the handler turns it into an HTTP 500
StoreError(p) ==
    /\ req[p].op \in {"reconcile", "detect"}
    /\ req[p].pc \in {"find_gl", "delete", "insert", "statistical", "ml"}
    /\ req' = [req EXCEPT ![p].pc = "failed"]
    /\ UNCHANGED << transactions_db, general_ledger_db, reconciliation_results_db,
                    anomalies_db, completed, data_quality_db >>

(***************************************************************************)
(* Uploaded files.  Amounts are small (0.10, 0.90) so that the statistics  *)
(* stay in range.  No cell of these files is missing.                      *)
(***************************************************************************)
FileTxn(i, amount) ==
    TxnFrameRow(Cell(TxnIdOf(i)), Cell("2024-01-01"), Cell(amount), Cell("ACC1"),
                Cell("CP1"))

FileGL(gl_id, account_id, debit_amount, credit_amount) ==
    GLFrameRow(Cell(gl_id), Cell("2024-01-01"), Cell(debit_amount),
               Cell(credit_amount), Cell(account_id))

TxnCsv(rows) == UploadFile(<< "transactions", ".csv" >>, TXN_COLUMNS, rows)

GLCsv(rows) == UploadFile(<< "general_ledger", ".csv" >>, GL_COLUMNS, rows)

\* one transaction; five transactions, the last an IQR outlier
GoodTxnFiles ==
    { TxnCsv(<< FileTxn(1, 100) >>),
      TxnCsv([ i \in 1..5 |-> FileTxn(i, IF i = 5 THEN 900 ELSE 100) ]) }

\* a header without data rows; a second row whose amount is not a number; a
\* file that is not named .csv; a header without the counterparty column
BadTxnFiles ==
    { TxnCsv(<< >>),
      TxnCsv(<< FileTxn(1, 100),
                TxnFrameRow(Cell("T2"), Cell("2024-01-01"), TextCell("abc"),
                            Cell("ACC1"), Cell("CP1")) >>),
      UploadFile(<< "transactions", ".txt" >>, TXN_COLUMNS, << FileTxn(1, 100) >>),
      UploadFile(<< "transactions", ".csv" >>, TXN_COLUMNS \ { "counterparty" },
                 << [ txn_id |-> Cell("T1"), date |-> Cell("2024-01-01"),
                      amount |-> Cell(100), account_id |-> Cell("ACC1") ] >>) }

SvcTxnFiles == GoodTxnFiles \cup BadTxnFiles

GoodGLFiles ==
    { GLCsv(<< FileGL("G1", "ACC1", 100, 0) >>) }

BadGLFiles ==
    { GLCsv(<< >>),
      UploadFile(<< "general_ledger", ".xlsx" >>, GL_COLUMNS,
                 << FileGL("G1", "ACC1", 100, 0) >>) }

SvcGLFiles == GoodGLFiles \cup BadGLFiles

Init ==
    /\ transactions_db = << >>
    /\ general_ledger_db = << >>
    /\ reconciliation_results_db = << >>
    /\ anomalies_db = << >>
    /\ data_quality_db = << >>
    /\ req = [p \in Procs |-> IdleReq]
    /\ completed = NoRuns
    /\ started = 0

\* a request is accepted while the request budget lasts
Accept ==
    started < MaxRequests /\ started' = started + 1

Next ==
    \E p \in Procs :
        \/ Accept /\ ReconcileFindTransactions(p)
        \/ UNCHANGED started /\ ReconcileFindGL(p)
        \/ UNCHANGED started /\ ReconcileDelete(p)
        \/ UNCHANGED started /\ ReconcileInsertOne(p)
        \/ Accept /\ DetectDelete(p)
        \/ UNCHANGED started /\ DetectStatistical(p)
        \/ UNCHANGED started /\ DetectML(p)
        \/ UNCHANGED started /\ DetectInsertMany(p)
        \/ Accept /\ \E file \in SvcTxnFiles : UploadTransactionsReject(p, file)
        \/ Accept /\ \E file \in SvcTxnFiles : UploadTransactionsDelete(p, file)
        \/ UNCHANGED started /\ UploadTransactionsInsert(p)
        \/ UNCHANGED started /\ UploadTransactionsInsertFails(p)
        \/ UNCHANGED started /\ UploadTransactionsQuality(p)
        \/ Accept /\ \E file \in SvcGLFiles : UploadGeneralLedgerReject(p, file)
        \/ Accept /\ \E file \in SvcGLFiles : UploadGeneralLedgerDelete(p, file)
        \/ UNCHANGED started /\ UploadGeneralLedgerInsert(p)
        \/ UNCHANGED started /\ UploadGeneralLedgerInsertFails(p)
        \/ UNCHANGED started /\ UploadGeneralLedgerQuality(p)
        \/ Accept /\ GetReconciliationResults(p)
        \/ UNCHANGED started /\ Return(p)
        \/ UNCHANGED started /\ StoreError(p)

Spec == Init /\ [][Next]_vars

(***************************************************************************)
(* The service used by one client at a time: every request is answered     *)
(* before the next is sent, and no store operation fails.  The number of   *)
(* requests is not limited.                                                *)
(***************************************************************************)
\* eleven transactions, the first a z-score outlier, enough rows for the ML
\* sub-pipeline
SeqTxnFiles ==
    GoodTxnFiles
      \cup { TxnCsv([ i \in 1..11 |-> FileTxn(i, IF i = 1 THEN 900 ELSE 100) ]) }

SeqGLFiles ==
    GoodGLFiles \cup { GLCsv(<< FileGL("G1", "ACC1", 900, 0),
                                FileGL("G2", "ACC2", 100, 0) >>) }

SeqProcs == {1}

NextSeq ==
    \E p \in SeqProcs :
        \/ UNCHANGED started /\ ReconcileFindTransactions(p)
        \/ UNCHANGED started /\ ReconcileFindGL(p)
        \/ UNCHANGED started /\ ReconcileDelete(p)
        \/ UNCHANGED started /\ ReconcileInsertOne(p)
        \/ UNCHANGED started /\ DetectDelete(p)
        \/ UNCHANGED started /\ DetectStatistical(p)
        \/ UNCHANGED started /\ DetectML(p)
        \/ UNCHANGED started /\ DetectInsertMany(p)
        \/ UNCHANGED started /\ \E file \in SeqTxnFiles : UploadTransactionsDelete(p, file)
        \/ UNCHANGED started /\ UploadTransactionsInsert(p)
        \/ UNCHANGED started /\ UploadTransactionsQuality(p)
        \/ UNCHANGED started /\ \E file \in SeqGLFiles : UploadGeneralLedgerDelete(p, file)
        \/ UNCHANGED started /\ UploadGeneralLedgerInsert(p)
        \/ UNCHANGED started /\ UploadGeneralLedgerQuality(p)
        \/ UNCHANGED started /\ Return(p)

SpecSeq == Init /\ [][NextSeq]_vars

(***************************************************************************)
(* Uploads alone, by one client at a time: every file, accepted or not.    *)
(***************************************************************************)
NextUpload ==
    \E p \in SeqProcs :
        \/ UNCHANGED started /\ \E file \in SvcTxnFiles : UploadTransactionsReject(p, file)
        \/ UNCHANGED started /\ \E file \in SvcTxnFiles : UploadTransactionsDelete(p, file)
        \/ UNCHANGED started /\ UploadTransactionsInsert(p)
        \/ UNCHANGED started /\ UploadTransactionsInsertFails(p)
        \/ UNCHANGED started /\ UploadTransactionsQuality(p)
        \/ UNCHANGED started /\ \E file \in SvcGLFiles : UploadGeneralLedgerReject(p, file)
        \/ UNCHANGED started /\ \E file \in SvcGLFiles : UploadGeneralLedgerDelete(p, file)
        \/ UNCHANGED started /\ UploadGeneralLedgerInsert(p)
        \/ UNCHANGED started /\ UploadGeneralLedgerInsertFails(p)
        \/ UNCHANGED started /\ UploadGeneralLedgerQuality(p)
        \/ UNCHANGED started /\ Return(p)

SpecUpload == Init /\ [][NextUpload]_vars

(***************************************************************************)
(* Properties of the matcher, checked under SpecMatch.                     *)
(***************************************************************************)
\* slots whose reconciliation run has built its result list
Materialized == { p \in Procs : req[p].op = "reconcile" /\ req[p].pc \in {"insert", "done"} }

PairedStatuses == {"matched", "amount_mismatch"}

\* the ledger positions never claimed, and the k-th of them in ledger order
Unclaimed(p) == { j \in 1..Len(req[p].gl_entries) : j \notin req[p].matched_gl_ids }

KthUnclaimed(p, k) ==
    CHOOSE j \in Unclaimed(p) : Cardinality({ u \in Unclaimed(p) : u < j }) = k - 1

\* C1: a run emits one result per transaction, in input order, with status
\* matched, amount_mismatch or missing_gl and that transaction's id, then one
\* missing_transaction result per ledger entry never claimed, and nothing
\* else: the count is transactions + unclaimed ledger entries.
C1_ExhaustiveCoverage ==
    \A p \in Materialized :
        LET T == req[p].transactions
            G == req[p].gl_entries
            r == req[p].results
        IN  /\ Len(r) = Len(T) + Cardinality(Unclaimed(p))
            /\ \A i \in 1..Len(T) :
                 /\ r[i].status \in {"matched", "amount_mismatch", "missing_gl"}
                 /\ r[i].transaction_id = T[i].txn_id
                 /\ r[i].account_id = T[i].account_id
                 /\ r[i].date = T[i].date
            /\ \A k \in 1..Cardinality(Unclaimed(p)) :
                 LET g == G[KthUnclaimed(p, k)] IN
                 r[Len(T) + k] =
                     ReconciliationResult("missing_transaction", NONE, g.gl_id,
                                          g.account_id, g.date, NoAmount)

C1_Witness ==
    \E p \in Materialized :
        /\ Len(req[p].transactions) = 2
        /\ Len(req[p].gl_entries) = 2
        /\ Cardinality(Unclaimed(p)) = 1
        /\ req[p].results[1].status = "matched"
        /\ req[p].results[2].status = "missing_gl"
        /\ req[p].results[3].status = "missing_transaction"

\* ledger entries / paired results that carry a given gl_id, account and date
EntriesWithKey(G, gl_id, account_id, date) ==
    { j \in 1..Len(G) :
        G[j].gl_id = gl_id /\ G[j].account_id = account_id /\ G[j].date = date }

PairedWithKey(r, gl_id, account_id, date) ==
    { i \in 1..Len(r) :
        /\ r[i].status \in PairedStatuses
        /\ r[i].gl_id = gl_id /\ r[i].account_id = account_id /\ r[i].date = date }

\* C2: no ledger entry is referenced by two matched/amount_mismatch results of
\* one run: there are as many such results as claimed entries, and for every
\* gl_id, account and date no more of them than ledger entries carrying these.
C2_ClaimExclusivity ==
    \A p \in Materialized :
        LET G == req[p].gl_entries
            r == req[p].results
        IN  /\ req[p].matched_gl_ids \subseteq 1..Len(G)
            /\ Cardinality({ i \in 1..Len(r) : r[i].status \in PairedStatuses })
                 = Cardinality(req[p].matched_gl_ids)
            /\ \A j \in 1..Len(G) :
                 Cardinality(PairedWithKey(r, G[j].gl_id, G[j].account_id, G[j].date))
                   <= Cardinality(EntriesWithKey(G, G[j].gl_id, G[j].account_id, G[j].date))

\* two transactions of the same account and date, two ledger entries with the
\* same gl_id of which only the first is a candidate: the second transaction
\* cannot take the claimed entry
C2_Witness ==
    \E p \in Materialized :
        /\ Len(req[p].transactions) = 2
        /\ Len(req[p].gl_entries) = 2
        /\ req[p].gl_entries[1].gl_id = req[p].gl_entries[2].gl_id
        /\ req[p].matched_gl_ids = {1}
        /\ req[p].results[1].status = "matched"
        /\ req[p].results[2].status = "missing_gl"

\* the entries claimed by the transactions before position i
ClaimedBefore(p, i) ==
    MatchTransactions(SubSeq(req[p].transactions, 1, i - 1), req[p].gl_entries,
                      1, << >>, {}).matched_gl_ids

\* ledger entry j is the first entry in scan order that transaction i can take
FirstEligible(p, i, j) ==
    LET T == req[p].transactions
        G == req[p].gl_entries
        open(k) == /\ G[k].account_id = T[i].account_id
                   /\ G[k].date = T[i].date
                   /\ k \notin ClaimedBefore(p, i)
                   /\ Abs((G[k].debit_amount - G[k].credit_amount) - T[i].amount)
                        < MISMATCH_CEILING
    IN  open(j) /\ \A k \in 1..(j - 1) : ~open(k)

\* C3: when the first entry a transaction can take is within 0.01 of its
\* amount, the transaction's result is matched with its txn_id, that entry's
\* gl_id and amount_difference 0 (not the actual difference), and the entry is
\* claimed: it is in the claimed set of every later transaction and of the run.
C3_ExactMatch ==
    \A p \in Materialized :
        LET T == req[p].transactions
            G == req[p].gl_entries
            r == req[p].results
        IN  \A i \in 1..Len(T) : \A j \in 1..Len(G) :
              ( /\ FirstEligible(p, i, j)
                /\ Abs((G[j].debit_amount - G[j].credit_amount) - T[i].amount)
                     < EXACT_TOLERANCE )
              => /\ r[i] = ReconciliationResult("matched", T[i].txn_id, G[j].gl_id,
                                                T[i].account_id, T[i].date, SomeAmount(0))
                 /\ j \in req[p].matched_gl_ids
                 /\ \A i2 \in (i + 1)..Len(T) :
                      j \in ClaimedBefore(p, i2) /\ ~FirstEligible(p, i2, j)

\* a match whose actual difference is 0.005, followed by a transaction that
\* finds the entry taken
C3_Witness ==
    \E p \in Materialized :
        /\ Len(req[p].transactions) = 2
        /\ Len(req[p].gl_entries) = 1
        /\ req[p].gl_entries[1].debit_amount - req[p].gl_entries[1].credit_amount
             - req[p].transactions[1].amount = 5
        /\ req[p].results[1].status = "matched"
        /\ req[p].results[1].amount_difference = SomeAmount(0)
        /\ req[p].results[2].status = "missing_gl"

\* one transaction and one ledger entry of its account and date
SinglePair(p) ==
    /\ Len(req[p].transactions) = 1
    /\ Len(req[p].gl_entries) = 1
    /\ req[p].gl_entries[1].account_id = req[p].transactions[1].account_id
    /\ req[p].gl_entries[1].date = req[p].transactions[1].date

PairDiff(p) ==
    req[p].gl_entries[1].debit_amount - req[p].gl_entries[1].credit_amount
      - req[p].transactions[1].amount

\* C4: the ceiling is strict.  For a single pair, a difference of 99.99 or
\* -99.99 gives amount_mismatch with that difference and claims the entry; a
\* difference of 100.00 or -100.00 gives missing_gl and leaves the entry
\* unclaimed, reported missing_transaction.
C4_StrictCeiling ==
    \A p \in Materialized :
        SinglePair(p) =>
          LET t == req[p].transactions[1]
              g == req[p].gl_entries[1]
          IN  /\ Abs(PairDiff(p)) = 99990 =>
                   /\ req[p].results =
                        << ReconciliationResult("amount_mismatch", t.txn_id, g.gl_id,
                                                t.account_id, t.date, SomeAmount(PairDiff(p))) >>
                   /\ req[p].matched_gl_ids = {1}
              /\ Abs(PairDiff(p)) = 100000 =>
                   /\ req[p].results =
                        << ReconciliationResult("missing_gl", t.txn_id, NONE,
                                                t.account_id, t.date, NoAmount),
                           ReconciliationResult("missing_transaction", NONE, g.gl_id,
                                                g.account_id, g.date, NoAmount) >>
                   /\ req[p].matched_gl_ids = {}

C4_Witness ==
    \E p \in Materialized :
        /\ SinglePair(p)
        /\ PairDiff(p) = 100000
        /\ req[p].results[1].status = "missing_gl"
        /\ req[p].results[2].status = "missing_transaction"

\* the input of C5: 100.00 on ACC1 at 2024-01-01 against debit 250.00, credit 0
C5_Input(p) ==
    /\ SinglePair(p)
    /\ req[p].transactions[1].account_id = "ACC1"
    /\ req[p].transactions[1].date = "2024-01-01"
    /\ req[p].transactions[1].amount = 100000
    /\ req[p].gl_entries[1].debit_amount = 250000
    /\ req[p].gl_entries[1].credit_amount = 0

\* C5 as stated: that input gives exactly one result, amount_mismatch with
\* amount_difference 150.0.
C5_AsStated ==
    \A p \in Materialized :
        C5_Input(p) =>
          /\ Len(req[p].results) = 1
          /\ req[p].results[1].status = "amount_mismatch"
          /\ req[p].results[1].amount_difference = SomeAmount(150000)

\* C5 amended: a difference of 150.00 is not below the ceiling of 100, so that
\* input gives two results: missing_gl for the transaction and
\* missing_transaction for the ledger entry.
C5_Amended ==
    \A p \in Materialized :
        C5_Input(p) =>
          LET t == req[p].transactions[1]
              g == req[p].gl_entries[1]
          IN  /\ req[p].results =
                   << ReconciliationResult("missing_gl", t.txn_id, NONE,
                                           t.account_id, t.date, NoAmount),
                      ReconciliationResult("missing_transaction", NONE, g.gl_id,
                                           g.account_id, g.date, NoAmount) >>
              /\ req[p].pc = "done" => reconciliation_results_db = req[p].results

C5_Witness ==
    \E p \in Materialized :
        /\ C5_Input(p)
        /\ req[p].pc = "done"
        /\ Len(reconciliation_results_db) = 2

(***************************************************************************)
(* Properties of the service.                                              *)
(***************************************************************************)
\* C6 as stated: a run is all-or-nothing.  When a reconciliation or
\* anomaly-detection run has failed, its result collection holds what it held
\* when the run arrived, or the last completed run's result set.
C6_AllOrNothing ==
    \A p \in Procs :
        req[p].pc = "failed" =>
          /\ req[p].op = "reconcile" =>
               \/ reconciliation_results_db = req[p].before
               \/ reconciliation_results_db = completed.reconcile
          /\ req[p].op = "detect" =>
               \/ anomalies_db = req[p].before
               \/ anomalies_db = completed.detect

\* C7 as stated: every read of the reconciliation results made while a run is
\* in progress returned a whole result set, the previous one or the new one.
C7_ReadsSeeWholeSets ==
    \A q \in Procs :
        (req[q].op = "get_reconciliation_results" /\ req[q].pc = "done")
          => req[q].whole

\* C8 as stated: runs of one component do not interleave.  When every slot
\* holds a completed run of the same component, the collection is the output
\* of one of them.
C8_RunsSerialized ==
    /\ (\A p \in Procs : req[p].op = "reconcile" /\ req[p].pc = "done")
         => \E p \in Procs : reconciliation_results_db = req[p].results
    /\ (\A p \in Procs : req[p].op = "detect" /\ req[p].pc = "done")
         => \E p \in Procs :
              anomalies_db = req[p].statistical_anomalies \o req[p].ml_anomalies

\* C9: with one request at a time and no failure, whenever no reconciliation
\* run is in progress the result collection is exactly the sequence the last
\* completed run emitted (empty before the first run), which for the run just
\* completed is the matcher's output on the tables it read; likewise the
\* anomaly collection and the last completed detection run's merged output.
C9_LastRunOnly ==
    /\ (\A p \in Procs : ~ReconcileRunning(p))
         => reconciliation_results_db = completed.reconcile
    /\ (\A p \in Procs : ~DetectRunning(p))
         => anomalies_db = completed.detect
    /\ \A p \in Procs :
         /\ (req[p].op = "reconcile" /\ req[p].pc = "done")
              => reconciliation_results_db
                   = Matcher(req[p].transactions, req[p].gl_entries).results
         /\ (req[p].op = "detect" /\ req[p].pc = "done")
              => anomalies_db = req[p].statistical_anomalies \o req[p].ml_anomalies

\* a run has replaced an earlier run's different, non-empty result set, and
\* the anomaly collection holds a detection run's findings
C9_Witness ==
    \E p \in Procs :
        /\ req[p].op = "reconcile" /\ req[p].pc = "done"
        /\ req[p].before # << >>
        /\ req[p].results # << >>
        /\ req[p].before # req[p].results
        /\ reconciliation_results_db = req[p].results
        /\ Len(anomalies_db) >= 2

(***************************************************************************)
(* Properties of the anomaly pipeline, checked under SpecAnomaly.          *)
(***************************************************************************)
\* number of entries of a sub-pipeline's output that carry a transaction id
Occurrences(anomalies, txn_id) ==
    Cardinality({ k \in 1..Len(anomalies) : anomalies[k].transaction_id = txn_id })

MethodsOf(anomalies, txn_id) ==
    { anomalies[k].detection_method :
        k \in { k \in 1..Len(anomalies) : anomalies[k].transaction_id = txn_id } }

RowZFlagged(T, i) ==
    /\ Len(T) >= MIN_ROWS_STATISTICAL
    /\ ZFlagged(Len(T), SumAmounts(T, 1), SumSquares(T, 1), T[i].amount)

RowIqrFlagged(T, i) ==
    /\ Len(T) >= MIN_ROWS_STATISTICAL
    /\ IqrFlagged(Quantile4(T, 1), Quantile4(T, 3), T[i].amount)

\* C10 as stated: in each sub-pipeline's output a transaction id appears at
\* most once, tagged with the method that flagged it first, for every table,
\* tables with repeated txn_id included.
C10_OncePerSubPipeline ==
    \A p \in Procs :
        (req[p].op = "detect" /\ req[p].pc = "done") =>
          LET T == req[p].transactions
              sa == req[p].statistical_anomalies
              ml == req[p].ml_anomalies
              iso == IF Len(T) >= MIN_ROWS_ML THEN req[p].iso_predictions ELSE {}
              svm == IF Len(T) >= MIN_ROWS_ML THEN req[p].svm_predictions ELSE {}
          IN  \A i \in 1..Len(T) :
                /\ Occurrences(sa, T[i].txn_id) <= 1
                /\ RowZFlagged(T, i) =>
                     /\ Occurrences(sa, T[i].txn_id) = 1
                     /\ MethodsOf(sa, T[i].txn_id) = {"z_score"}
                /\ ( /\ RowIqrFlagged(T, i)
                     /\ \A k \in 1..Len(T) :
                          T[k].txn_id = T[i].txn_id => ~RowZFlagged(T, k) ) =>
                     /\ Occurrences(sa, T[i].txn_id) = 1
                     /\ MethodsOf(sa, T[i].txn_id) = {"iqr"}
                /\ Occurrences(ml, T[i].txn_id) <= 1
                /\ i \in iso =>
                     /\ Occurrences(ml, T[i].txn_id) = 1
                     /\ MethodsOf(ml, T[i].txn_id) = {"isolation_forest"}

\* C11 as stated: the persisted output of a detection run is the statistical
\* results followed by the ML results; a transaction id flagged in both
\* sub-pipelines is persisted exactly twice, and no id more than twice.
C11_ConcatenatedAtMostTwice ==
    \A p \in Procs :
        (req[p].op = "detect" /\ req[p].pc = "done") =>
          LET T == req[p].transactions
              sa == req[p].statistical_anomalies
              ml == req[p].ml_anomalies
          IN  /\ anomalies_db = sa \o ml
              /\ \A i \in 1..Len(T) :
                    /\ ( /\ T[i].txn_id \in FlaggedIds(sa)
                         /\ T[i].txn_id \in FlaggedIds(ml) )
                         => Occurrences(anomalies_db, T[i].txn_id) = 2
                    /\ Occurrences(anomalies_db, T[i].txn_id) <= 2

\* C12: a detection run completes on every table.  With fewer than 5 rows
\* the statistical sub-pipeline contributes nothing, with fewer than 10 rows
\* the ML sub-pipeline contributes nothing, and what the run leaves in the
\* anomaly collection is its own output, nothing of what was stored before:
\* empty below 5 rows, the statistical results alone from 5 to 9 rows.
C12_InsufficientDataIsEmpty ==
    \A p \in Procs :
        (req[p].op = "detect" /\ req[p].pc \in {"done", "failed"}) =>
          LET n == Len(req[p].transactions)
              sa == req[p].statistical_anomalies
              ml == req[p].ml_anomalies
          IN  /\ req[p].pc = "done"
              /\ n < 5 => sa = << >>
              /\ n < 10 => ml = << >>
              /\ anomalies_db = sa \o ml
              /\ n < 5 => anomalies_db = << >>
              /\ (5 <= n /\ n <= 9) => anomalies_db = sa

\* a run on a table of 5 to 9 rows replaced stored anomalies by its
\* statistical findings
C12_Witness ==
    \E p \in Procs :
        /\ req[p].op = "detect" /\ req[p].pc = "done"
        /\ Len(req[p].transactions) \in 5..9
        /\ req[p].before # << >>
        /\ req[p].statistical_anomalies # << >>
        /\ anomalies_db = req[p].statistical_anomalies

(***************************************************************************)
(* Properties of the quality scorer, checked under SpecQuality.            *)
(***************************************************************************)
\* the scored table and its report, once the scorer has returned
Scored == req[1].op = "score_quality" /\ req[1].pc = "done"

\* 4 rows of 5 columns, exactly one row entirely null, every other cell present
OneNullRowOfFour(df) ==
    /\ Len(df.rows) = 4
    /\ Cardinality(df.columns) = 5
    /\ \E k \in 1..4 :
         /\ NonNullInRow(df, k) = 0
         /\ \A i \in (1..4) \ {k} : NonNullInRow(df, i) = 5

\* C13 as stated: on such a table completeness_score is 95.0.
C13_AsStated ==
    (Scored /\ OneNullRowOfFour(req[1].file.df))
      => req[1].response.completeness_score = 9500

\* C13 amended: on such a table 15 of the 20 cells are present, so
\* completeness_score = 100 * 15 / 20 = 75.0.
C13_Amended ==
    (Scored /\ OneNullRowOfFour(req[1].file.df))
      => req[1].response.completeness_score = 7500

C13_Witness ==
    /\ Scored
    /\ OneNullRowOfFour(req[1].file.df)
    /\ req[1].response.total_records = 4
    /\ req[1].response.completeness_score = 7500

\* an amount column exists and holds a negative value
HasNegativeAmount(df) ==
    /\ "amount" \in df.columns
    /\ \E i \in 1..Len(df.rows) :
         LET cell == df.rows[i]["amount"] IN Len(cell) = 1 /\ cell[1] < 0

\* a date column exists and holds text that is not a date
HasUnparseableDate(df) ==
    /\ "date" \in df.columns
    /\ \E i \in 1..Len(df.rows) :
         LET cell == df.rows[i]["date"] IN Len(cell) = 1 /\ cell[1] \notin ValidDates

\* C14: consistency_score is 100 less 10 when the amount column holds a
\* negative value, less 15 when the date column fails to parse (once, however
\* many values fail), so one of 100, 90, 85, 75 and at most 90 with a negative
\* amount; there is one issue string per penalty; and quality_score is the
\* mean of the completeness (before rounding) and the consistency, to two
\* decimal places.
C14_ConsistencyAndQuality ==
    Scored =>
      LET df == req[1].file.df
          r == req[1].response
          neg == IF HasNegativeAmount(df) THEN 1 ELSE 0
          bad == IF HasUnparseableDate(df) THEN 1 ELSE 0
          N == NonNullCount(df, 1)
          D == CellCount(df)
      IN  /\ r.consistency_score = 10000 - 1000 * neg - 1500 * bad
          /\ r.consistency_score \in {10000, 9000, 8500, 7500}
          /\ neg = 1 => r.consistency_score <= 9000
          /\ Len(r.issues) = neg + bad
          /\ Abs(2 * D * r.quality_score - (10000 * N + r.consistency_score * D)) <= D

\* both penalties applied, two rows with an unparseable date, and a quality
\* score whose second decimal comes from rounding
C14_Witness ==
    /\ Scored
    /\ HasNegativeAmount(req[1].file.df)
    /\ \E i, j \in 1..Len(req[1].file.df.rows) :
         /\ i # j
         /\ ~ParsesAsDate(req[1].file.df.rows[i]["date"])
         /\ ~ParsesAsDate(req[1].file.df.rows[j]["date"])
    /\ req[1].response.consistency_score = 7500
    /\ Len(req[1].response.issues) = 2
    /\ 2 * req[1].response.quality_score
         # req[1].response.completeness_score + req[1].response.consistency_score

(***************************************************************************)
(* The matcher's scan order, checked under SpecGreedy.                     *)
(***************************************************************************)
\* the entry transaction i takes: the first in ledger order that is
\* unclaimed, of its account and date, and within the ceiling; 0 if none
TakenBy(p, i) ==
    IF \E j \in 1..Len(req[p].gl_entries) : FirstEligible(p, i, j)
    THEN CHOOSE j \in 1..Len(req[p].gl_entries) : FirstEligible(p, i, j)
    ELSE 0

\* C15: each transaction, in input order, is paired with the first ledger
\* entry in ledger order that is unclaimed, of its account and date, and
\* within 100 of its amount, whatever comes later in the ledger: matched if
\* that entry is within 0.01, amount_mismatch with the signed difference
\* otherwise, missing_gl if there is no such entry.  The claimed set grows by
\* exactly that entry, so entries passed over for being 100 or more away are
\* not claimed and later transactions can take them.
C15_GreedyFirstEligible ==
    \A p \in Materialized :
        LET T == req[p].transactions
            G == req[p].gl_entries
            r == req[p].results
        IN  /\ ClaimedBefore(p, 1) = {}
            /\ ClaimedBefore(p, Len(T) + 1) = req[p].matched_gl_ids
            /\ \A i \in 1..Len(T) :
                 LET j == TakenBy(p, i) IN
                 IF j = 0
                 THEN /\ r[i].status = "missing_gl"
                      /\ ClaimedBefore(p, i + 1) = ClaimedBefore(p, i)
                 ELSE LET diff == (G[j].debit_amount - G[j].credit_amount) - T[i].amount IN
                      /\ r[i].gl_id = G[j].gl_id
                      /\ r[i].status = IF Abs(diff) < EXACT_TOLERANCE
                                       THEN "matched" ELSE "amount_mismatch"
                      /\ r[i].amount_difference =
                           IF Abs(diff) < EXACT_TOLERANCE THEN SomeAmount(0)
                                                          ELSE SomeAmount(diff)
                      /\ ClaimedBefore(p, i + 1) = ClaimedBefore(p, i) \cup {j}

\* T1 passes over G1 (150.00 away), takes G2 (0.01 away) as amount_mismatch
\* although G3 equals its amount; T2 then takes G1; G3 is left over
C15_Witness ==
    \E p \in Materialized :
        /\ Len(req[p].transactions) = 2
        /\ Len(req[p].gl_entries) = 3
        /\ req[p].results[1].status = "amount_mismatch"
        /\ req[p].results[1].gl_id = req[p].gl_entries[2].gl_id
        /\ req[p].gl_entries[3].debit_amount - req[p].gl_entries[3].credit_amount
             = req[p].transactions[1].amount
        /\ Abs(req[p].gl_entries[1].debit_amount - req[p].gl_entries[1].credit_amount
                 - req[p].transactions[1].amount) >= MISMATCH_CEILING
        /\ req[p].results[2].status = "matched"
        /\ req[p].results[2].gl_id = req[p].gl_entries[1].gl_id
        /\ req[p].matched_gl_ids = {1, 2}
        /\ req[p].results[3].status = "missing_transaction"
        /\ req[p].results[3].gl_id = req[p].gl_entries[3].gl_id

(***************************************************************************)
(* Properties of the service's input tables.                               *)
(***************************************************************************)
\* C16 as stated: every table a reconciliation or detection run has read was
\* read while no upload stood between its delete and its insert, and the two
\* sub-pipelines of a detection run have read the same transaction table.
C16_StableSnapshot ==
    \A p \in Procs :
        /\ req[p].op \in {"reconcile", "detect"} => req[p].stable
        /\ (req[p].op = "detect" /\ req[p].pc \in {"insert", "done"})
             => req[p].ml_transactions = req[p].transactions

\* C17 as stated: when an upload has been refused or has failed, the table
\* and the data-quality reports are as they were when the request arrived.
C17_FailedUploadChangesNothing ==
    \A p \in Procs :
        req[p].pc = "failed" =>
          /\ req[p].op = "upload_transactions" =>
               /\ transactions_db = req[p].before
               /\ data_quality_db = req[p].before_quality
          /\ req[p].op = "upload_general_ledger" =>
               /\ general_ledger_db = req[p].before
               /\ data_quality_db = req[p].before_quality

====
